---- MODULE Spec2Model ----
(***************************************************************************)
(* Model of src/platform_impl/web/web_sys/canvas.rs: the Canvas (Surface)  *)
(* with its nine listener slots, the MouseState strategy chosen in         *)
(* Canvas::create, and the wants_fullscreen deferred-retry flag shared by  *)
(* Common::request_fullscreen and the closures built by                    *)
(* Common::add_user_event / Common::add_window_mouse_event.                *)
(*                                                                         *)
(* The host (browser) is single threaded: a Rust call or a listener        *)
(* closure runs to completion, and promise reactions (microtasks) run only *)
(* when the stack is empty, i.e. between operations and between two        *)
(* listener invocations of one event.  pc records the position inside a    *)
(* running subscription method or listener closure.                        *)
(***************************************************************************)
EXTENDS Naturals, FiniteSets

VARIABLES
    phase,            \* "uncreated" | "live" | "create_failed" | "panicked"
    hostWindow,       \* web_sys::window() is Some
    hostPointer,      \* window.get("PointerEvent") is Some
    hostFs,           \* the host's fullscreen state (super::is_fullscreen)
    mouse_state,      \* Canvas.mouse_state: "none" | "HasPointerEvent" | "NoPointerEvent"
    probes,           \* number of has_pointer_event() calls so far
    wants_fullscreen, \* Common.wants_fullscreen
    flagSource,       \* why wants_fullscreen was last set: "none" | "sync_err" | "no_promise" | "rejected"
    pending,          \* confirmations (promises) spawned by request_fullscreen, not yet settled
    slots,            \* Canvas.on_* fields and the strategy's fields: 0 is None, n > 0 is Some(handle n)
    attached,         \* listeners attached to the host: <<slot, id>>
    nextId,           \* number of listener handles created so far, plus one
    pc,               \* "idle" | "installing" | "entered" | "handled" | "retrying" | "dispatching" (between two listeners)
    cur,              \* the handle being installed, or the listener running
    queue,            \* listeners of the event being dispatched that have not run yet
    stopped,          \* stop_propagation()/cancel_bubble() called on the event being dispatched
    evRetries,        \* retry requests issued during the event being dispatched
    retrySource,      \* flagSource consumed by the retry of the event being dispatched
    handlerRequested, \* the handler of the running closure called request_fullscreen()
    requests,         \* request_fullscreen() calls so far
    retries,          \* retry requests handed to the host so far
    retryPending,     \* the host has not yet settled what it returned to some retry (nothing awaits it)
    ret               \* what the last operation returned, when it was create() or is_fullscreen(); else "none"

vars == <<phase, hostWindow, hostPointer, hostFs, mouse_state, probes,
          wants_fullscreen, flagSource, pending, slots, attached, nextId,
          pc, cur, queue, stopped, evRetries, retrySource, handlerRequested,
          requests, retries, retryPending, ret>>

\* Bounds of the model.
MaxRegs == 2
MaxRequests == 2

NoReg == <<"none", 0>>

\* The nine Option<...Handle> fields of struct Canvas.
CanvasSlots ==
    {"on_touch_start", "on_touch_end", "on_focus", "on_blur",
     "on_keyboard_release", "on_keyboard_press", "on_mouse_wheel",
     "on_fullscreen_change", "on_dark_mode"}

\* The subscriptions Canvas forwards to the strategy held in mouse_state.
StrategySlots ==
    {"on_cursor_leave", "on_cursor_enter", "on_mouse_release",
     "on_mouse_press", "on_cursor_move", "on_touch_cancel"}

Slots == CanvasSlots \cup StrategySlots

\* How each Canvas::on_* method registers its closure.
CanvasMode(s) ==
    CASE s \in {"on_keyboard_release", "on_keyboard_press"} -> "user"
      [] s = "on_dark_mode" -> "media"
      [] OTHER -> "plain"

\* How the strategy registers: the pointer strategy puts press/release on the
\* canvas as user events, the legacy mouse strategy puts press/release/move on
\* the window (add_window_mouse_event is "used exclusively for mouse events").
StrategyMode(ms, s) ==
    IF ms = "HasPointerEvent"
    THEN (IF s \in {"on_mouse_release", "on_mouse_press"} THEN "user" ELSE "plain")
    ELSE (IF s \in {"on_mouse_release", "on_mouse_press", "on_cursor_move"}
          THEN "window" ELSE "plain")

ModeOf(s) == IF s \in CanvasSlots THEN CanvasMode(s) ELSE StrategyMode(mouse_state, s)

\* Variant of has_pointer_event: a reachable window is taken for the
\* capability, the constructor is not looked up.
has_pointer_event_WindowOnly == hostWindow

\* has_pointer_event()
has_pointer_event == hostWindow /\ hostPointer

Init ==
    /\ phase = "uncreated"
    /\ hostWindow \in BOOLEAN
    /\ hostPointer \in BOOLEAN
    /\ (~hostWindow => ~hostPointer)
    /\ hostFs = FALSE
    /\ mouse_state = "none"
    /\ probes = 0
    /\ wants_fullscreen = FALSE
    /\ flagSource = "none"
    /\ pending = 0
    /\ slots = [s \in Slots |-> 0]
    /\ attached = {}
    /\ nextId = 1
    /\ pc = "idle"
    /\ cur = NoReg
    /\ queue = {}
    /\ stopped = FALSE
    /\ evRetries = 0
    /\ retrySource = "none"
    /\ handlerRequested = FALSE
    /\ requests = 0
    /\ retries = 0
    /\ retryPending = FALSE
    /\ ret = "none"

\* Variant of CreateFails: the window lookup cannot fail (the element is made
\* without asking for the window first).
CreateFails_WindowNotNeeded(canvasGiven, focusable, documentOk, createElementOk, setAttributeOk) ==
    \/ ~canvasGiven /\ ~(documentOk /\ createElementOk)
    \/ focusable /\ ~setAttributeOk

\* Canvas::create(attr): element resolution, optional tabindex, capability
\* probe, then the Canvas with every slot None and wants_fullscreen false.
\* The `?` early returns: with no attr.canvas, the window, its document or
\* create_element("canvas") may be missing or fail; with attr.focusable,
\* set_attribute("tabindex", "0") may fail.
CreateFails(canvasGiven, focusable, documentOk, createElementOk, setAttributeOk) ==
    \/ ~canvasGiven /\ ~(hostWindow /\ documentOk /\ createElementOk)
    \/ focusable /\ ~setAttributeOk

\* What create returned, together with the attr.canvas it was called with.
CreateReturn(canvasGiven, failed) ==
    IF canvasGiven
    THEN (IF failed THEN "create(Some):Err" ELSE "create(Some):Ok")
    ELSE (IF failed THEN "create(None):Err" ELSE "create(None):Ok")

create ==
    /\ phase = "uncreated"
    /\ \E canvasGiven, focusable, documentOk, createElementOk, setAttributeOk \in BOOLEAN :
          LET failed == CreateFails(canvasGiven, focusable, documentOk,
                                    createElementOk, setAttributeOk) IN
             /\ ret' = CreateReturn(canvasGiven, failed)
             /\ IF failed
                THEN /\ phase' = "create_failed"
                     /\ UNCHANGED <<mouse_state, probes>>
                ELSE /\ phase' = "live"
                     /\ probes' = probes + 1
                     /\ mouse_state' = IF has_pointer_event THEN "HasPointerEvent"
                                                            ELSE "NoPointerEvent"
    /\ UNCHANGED <<hostWindow, hostPointer, hostFs, wants_fullscreen, flagSource,
                   pending, slots, attached, nextId, pc, cur, queue, stopped,
                   evRetries, retrySource, requests, retries, retryPending, handlerRequested>>

\* ---------------------------------------------------------------------
\* Subscriptions.  `self.on_x = Some(self.common.add_event(..))` evaluates the
\* right-hand side first (the new closure is attached to the host), then the
\* assignment drops the previous handle, which detaches the old listener.

\* add_window_mouse_event: `web_sys::window().expect("Failed to obtain window")`.
WindowListenerOutcomes == IF hostWindow THEN {"handle"} ELSE {"panic"}

\* on_dark_mode assigns MediaQueryListHandle::new(..) to the Option field as it
\* is (no Some(..)): the constructor may yield no handle.
MediaQueryOutcomes == {"handle", "none"}

\* What the registration of mode m yields.
RegisterOutcomes(m) ==
    CASE m = "window" -> WindowListenerOutcomes
      [] m = "media" -> MediaQueryOutcomes
      [] OTHER -> {"handle"}

\* A name for the closure a new registration wraps: one that no listener
\* attached for the slot bears (a new Closure is never one of the old ones).
FreshId(s) == CHOOSE n \in 1..(MaxRegs + 2) :
                 /\ <<s, n>> \notin attached
                 /\ \A k \in 1..(n - 1) : <<s, k>> \in attached

\* First half of an on_* method: build and attach the new registration.
AddListener(s) ==
    /\ phase = "live"
    /\ pc = "idle"
    /\ nextId <= MaxRegs
    /\ \E o \in RegisterOutcomes(ModeOf(s)) :
          CASE o = "handle" ->
                 /\ attached' = attached \cup {<<s, FreshId(s)>>}
                 /\ nextId' = nextId + 1
                 /\ cur' = <<s, FreshId(s)>>
                 /\ pc' = "installing"
                 /\ UNCHANGED phase
            [] o = "none" ->
                 /\ cur' = <<s, 0>>
                 /\ pc' = "installing"
                 /\ UNCHANGED <<attached, nextId, phase>>
            [] OTHER ->
                 /\ phase' = "panicked"
                 /\ UNCHANGED <<attached, nextId, cur, pc>>
    /\ ret' = "none"
    /\ UNCHANGED <<hostWindow, hostPointer, hostFs, mouse_state, probes,
                   wants_fullscreen, flagSource, pending, slots, queue, stopped,
                   evRetries, retrySource, requests, retries, retryPending, handlerRequested>>

\* Variant of DropHandle: the previous handle is leaked (its listener stays
\* attached), as if the old value of the field were forgotten instead of dropped.
DropHandle_Leaks(s) == attached

\* Dropping the handle a slot held detaches its listener from the host.
DropHandle(s) == attached \ {<<s, slots[s]>>}

\* Variant of AssignSlot: on_keyboard_press stores its handle in the field of
\* on_keyboard_release.
AssignSlot_WrongField ==
    /\ phase = "live"
    /\ pc = "installing"
    /\ LET field == IF cur[1] = "on_keyboard_press" THEN "on_keyboard_release"
                                                    ELSE cur[1] IN
          /\ slots' = [slots EXCEPT ![field] = cur[2]]
          /\ attached' = DropHandle(field)
    /\ pc' = "idle"
    /\ cur' = NoReg
    /\ ret' = "none"
    /\ UNCHANGED <<phase, hostWindow, hostPointer, hostFs, mouse_state, probes,
                   wants_fullscreen, flagSource, pending, nextId, queue, stopped,
                   evRetries, retrySource, requests, retries, retryPending, handlerRequested>>

\* Second half of an on_* method: the assignment to the field.
AssignSlot ==
    /\ phase = "live"
    /\ pc = "installing"
    /\ slots' = [slots EXCEPT ![cur[1]] = cur[2]]
    /\ attached' = DropHandle(cur[1])
    /\ pc' = "idle"
    /\ cur' = NoReg
    /\ ret' = "none"
    /\ UNCHANGED <<phase, hostWindow, hostPointer, hostFs, mouse_state, probes,
                   wants_fullscreen, flagSource, pending, nextId, queue, stopped,
                   evRetries, retrySource, requests, retries, retryPending, handlerRequested>>

on_touch_start == AddListener("on_touch_start")
on_touch_end == AddListener("on_touch_end")
on_blur == AddListener("on_blur")
on_focus == AddListener("on_focus")
on_keyboard_release == AddListener("on_keyboard_release")
on_keyboard_press == AddListener("on_keyboard_press")
on_mouse_wheel == AddListener("on_mouse_wheel")
on_fullscreen_change == AddListener("on_fullscreen_change")
on_dark_mode == AddListener("on_dark_mode")

\* The methods matched on mouse_state and forwarded to the strategy.
on_cursor_leave == AddListener("on_cursor_leave")
on_cursor_enter == AddListener("on_cursor_enter")
on_mouse_release == AddListener("on_mouse_release")
on_mouse_press == AddListener("on_mouse_press")
on_cursor_move == AddListener("on_cursor_move")

\* Variant of on_touch_cancel: the handler is forwarded whatever the strategy.
on_touch_cancel_AlwaysForwards == AddListener("on_touch_cancel")

\* on_touch_cancel forwards only `if let MouseState::HasPointerEvent(h)`.
on_touch_cancel ==
    IF mouse_state = "HasPointerEvent"
    THEN AddListener("on_touch_cancel")
    ELSE /\ phase = "live"
         /\ pc = "idle"
         /\ ret' = "none"
         /\ UNCHANGED <<phase, hostWindow, hostPointer, hostFs, mouse_state, probes,
                        wants_fullscreen, flagSource, pending, slots, attached,
                        nextId, pc, cur, queue, stopped, evRetries, retrySource,
                        requests, retries, retryPending, handlerRequested>>

\* Variant of RemovedCanvasSlots: the two keyboard fields are not reset.
RemovedCanvasSlots_KeepsKeyboard ==
    {"on_focus", "on_blur", "on_mouse_wheel", "on_fullscreen_change",
     "on_dark_mode"}

\* The fields Canvas::remove_listeners sets to None.
RemovedCanvasSlots ==
    {"on_focus", "on_blur", "on_keyboard_release", "on_keyboard_press",
     "on_mouse_wheel", "on_fullscreen_change", "on_dark_mode"}

\* h.remove_listeners(): the strategy detaches every listener it owns.
StrategyRemovedSlots == StrategySlots

\* Variant of MouseStateAfterRemove: the strategy is rebuilt from a new probe.
MouseStateAfterRemove_Reprobed ==
    IF has_pointer_event THEN "HasPointerEvent" ELSE "NoPointerEvent"

\* What remove_listeners does with the strategy held in mouse_state: it
\* matches on it and keeps the variant.
MouseStateAfterRemove == mouse_state

remove_listeners ==
    /\ phase = "live"
    /\ pc = "idle"
    /\ LET gone == RemovedCanvasSlots \cup StrategyRemovedSlots IN
          /\ slots' = [s \in Slots |-> IF s \in gone THEN 0 ELSE slots[s]]
          /\ attached' = {r \in attached : r[1] \notin gone}
    /\ mouse_state' = MouseStateAfterRemove
    /\ ret' = "none"
    /\ UNCHANGED <<phase, probes, hostWindow, hostPointer, hostFs,
                   wants_fullscreen, flagSource, pending, nextId, pc, cur, queue,
                   stopped, evRetries, retrySource, requests, retries, retryPending, handlerRequested>>

\* ---------------------------------------------------------------------
\* Fullscreen.

\* The three shapes of the host's answer to ElementExt::request_fullscreen:
\* Err(_) (it threw), Ok(undefined) (no promise), Ok(promise).
HostAnswers == {"err", "undefined", "promise"}

\* Variant of TakesPromiseArm: the guard `if !value.is_undefined()` is missing,
\* so every Ok value is awaited as a promise.
TakesPromiseArm_AnyOk(answer) == answer # "err"

\* The match in Common::request_fullscreen: the first arm takes a defined Ok
\* value, the `_` arm takes everything else and sets wants_fullscreen.
TakesPromiseArm(answer) == answer = "promise"

\* Which answer set the flag.
SourceOf(answer) == IF answer = "err" THEN "sync_err" ELSE "no_promise"

\* Common::request_fullscreen, on the host answering `answer`.
RequestFullscreen(answer) ==
    /\ requests < MaxRequests
    /\ requests' = requests + 1
    /\ IF TakesPromiseArm(answer)
       THEN /\ pending' = pending + 1
            /\ UNCHANGED <<wants_fullscreen, flagSource>>
       ELSE /\ wants_fullscreen' = TRUE
            /\ flagSource' = SourceOf(answer)
            /\ UNCHANGED pending
    \* a host that returns no promise may have entered fullscreen silently
    /\ hostFs' \in (IF answer = "undefined" THEN {hostFs, TRUE} ELSE {hostFs})

\* Canvas::request_fullscreen, called by the owner of the Canvas.
request_fullscreen ==
    /\ phase = "live"
    /\ pc = "idle"
    /\ \E answer \in HostAnswers : RequestFullscreen(answer)
    /\ ret' = "none"
    /\ UNCHANGED <<phase, hostWindow, hostPointer, mouse_state, probes, slots,
                   attached, nextId, pc, cur, queue, stopped, evRetries,
                   retrySource, retries, retryPending, handlerRequested>>

\* The task spawned by spawn_local: `if JsFuture::from(promise).await.is_err()
\* { *wants_fullscreen.borrow_mut() = true }`.  It runs as a microtask, so only
\* with an empty stack.

\* Variant of ConfirmationResult: the task tests is_ok() instead of is_err().
ConfirmationResult_TestsIsOk(rejected) ==
    IF rejected
    THEN UNCHANGED <<wants_fullscreen, flagSource, hostFs>>
    ELSE /\ wants_fullscreen' = TRUE
         /\ flagSource' = "rejected"
         /\ hostFs' = TRUE

\* What the task does once the promise has settled: a rejection sets the
\* flag; a fulfilment (the host has entered fullscreen) touches nothing.
ConfirmationResult(rejected) ==
    IF rejected
    THEN /\ wants_fullscreen' = TRUE
         /\ flagSource' = "rejected"
         /\ UNCHANGED hostFs
    ELSE /\ hostFs' = TRUE
         /\ UNCHANGED <<wants_fullscreen, flagSource>>

ConfirmationSettles ==
    /\ phase = "live"
    /\ pc \in {"idle", "dispatching"}
    /\ pending > 0
    /\ pending' = pending - 1
    /\ \E rejected \in BOOLEAN : ConfirmationResult(rejected)
    /\ ret' = "none"
    /\ UNCHANGED <<phase, hostWindow, hostPointer, mouse_state, probes, slots,
                   attached, nextId, pc, cur, queue, stopped, evRetries,
                   retrySource, requests, retries, retryPending, handlerRequested>>

\* Variant of is_fullscreen: the answer is taken from the controller's own
\* state (a request waiting to be retried counts as not fullscreen).
is_fullscreen_FromController ==
    /\ phase = "live"
    /\ pc = "idle"
    /\ ret' = IF hostFs /\ ~wants_fullscreen THEN "true" ELSE "false"
    /\ UNCHANGED <<phase, hostWindow, hostPointer, hostFs, mouse_state, probes,
                   wants_fullscreen, flagSource, pending, slots, attached, nextId,
                   pc, cur, queue, stopped, evRetries, retrySource, requests,
                   retries, retryPending, handlerRequested>>

\* Canvas::is_fullscreen / Common::is_fullscreen.
is_fullscreen ==
    /\ phase = "live"
    /\ pc = "idle"
    /\ ret' = IF hostFs THEN "true" ELSE "false"
    /\ UNCHANGED <<phase, hostWindow, hostPointer, hostFs, mouse_state, probes,
                   wants_fullscreen, flagSource, pending, slots, attached, nextId,
                   pc, cur, queue, stopped, evRetries, retrySource, requests,
                   retries, retryPending, handlerRequested>>

\* ---------------------------------------------------------------------
\* The host environment.

\* The user leaves fullscreen through the host's own UI.
HostExitsFullscreen ==
    /\ phase = "live"
    /\ pc = "idle"
    /\ hostFs
    /\ hostFs' = FALSE
    /\ ret' = "none"
    /\ UNCHANGED <<phase, hostWindow, hostPointer, mouse_state, probes,
                   wants_fullscreen, flagSource, pending, slots, attached, nextId,
                   pc, cur, queue, stopped, evRetries, retrySource, requests,
                   retries, retryPending, handlerRequested>>

\* The host gains the PointerEvent constructor after creation (a script
\* defines it on the window); a host that has it does not lose it.
HostCapabilityChanges ==
    /\ phase = "live"
    /\ pc = "idle"
    /\ hostWindow
    /\ ~hostPointer
    /\ hostPointer' = TRUE
    /\ ret' = "none"
    /\ UNCHANGED <<phase, hostWindow, hostFs, mouse_state, probes,
                   wants_fullscreen, flagSource, pending, slots, attached, nextId,
                   pc, cur, queue, stopped, evRetries, retrySource, requests,
                   retries, retryPending, handlerRequested>>

\* ---------------------------------------------------------------------
\* Event dispatch.

\* Variant of EventListeners: on_keyboard_release and on_keyboard_press
\* register under the same event name, so one key event reaches both.
EventListeners_SharedKeyName(s) ==
    {r \in attached :
        \/ r[1] = s
        \/ {r[1], s} \subseteq {"on_keyboard_release", "on_keyboard_press"}}

\* Each on_* method registers under an event name of its own ("keyup",
\* "keydown", "wheel", ...): the listeners an event of slot s reaches are the
\* ones attached for s.
EventListeners(s) == {r \in attached : r[1] = s}

\* Variant of StopsPropagation: add_user_event registers its closure directly
\* instead of through add_event.
StopsPropagation_PlainOnly(m) == m = "plain"

\* The closure of Common::add_event calls stop_propagation() and
\* cancel_bubble() before the handler; add_user_event goes through add_event;
\* the closures of add_window_mouse_event and of on_dark_mode do not.
StopsPropagation(m) == m \in {"plain", "user"}

\* The host invokes the closure of one listener of an event of slot s: the
\* first one when no dispatch is running (the dispatch starts with it), the
\* next one when the event has listeners left.  The closure is entered and has
\* done what it does before the caller's handler.
InvokeListener(s) ==
    /\ phase = "live"
    /\ pc \in {"idle", "dispatching"}
    /\ LET waiting == IF pc = "idle" THEN EventListeners(s) ELSE queue IN
          \E r \in waiting :
             /\ r[1] = s
             /\ cur' = r
             /\ queue' = waiting \ {r}
             /\ stopped' = (stopped \/ StopsPropagation(ModeOf(r[1])))
    /\ pc' = "entered"
    /\ ret' = "none"
    /\ UNCHANGED <<phase, hostWindow, hostPointer, hostFs, mouse_state, probes,
                   wants_fullscreen, flagSource, pending, slots, attached, nextId,
                   evRetries, retrySource, requests, retries, retryPending, handlerRequested>>

\* The closure returns to the host: the dispatch goes on with the listeners
\* left, or is over.
ListenerReturns ==
    /\ cur' = NoReg
    /\ handlerRequested' = FALSE
    /\ IF queue = {}
       THEN /\ pc' = "idle"
            /\ stopped' = FALSE
            /\ evRetries' = 0
            /\ retrySource' = "none"
       ELSE /\ pc' = "dispatching"
            /\ UNCHANGED <<stopped, evRetries, retrySource>>
    /\ UNCHANGED queue

\* Variant of ChecksWantsFullscreen: the check is made by the closure of
\* add_event too, hence by every registration made through it.
ChecksWantsFullscreen_InAddEvent(m) == m \in {"plain", "user", "window"}

\* The closures that check wants_fullscreen after the handler.
ChecksWantsFullscreen(m) == m \in {"user", "window"}

\* The handlers of on_touch_start/on_touch_end are the closures written in
\* canvas.rs (prevent_default only); every other handler is the caller's.
CallerHandler(s) == s \notin {"on_touch_start", "on_touch_end"}

\* handler(event): the caller's handler returns, having possibly called
\* request_fullscreen().
RunHandler ==
    /\ phase = "live"
    /\ pc = "entered"
    /\ \E called \in BOOLEAN :
          /\ IF called
             THEN /\ CallerHandler(cur[1])
                  /\ \E answer \in HostAnswers : RequestFullscreen(answer)
             ELSE UNCHANGED <<wants_fullscreen, flagSource, pending, requests, hostFs>>
          /\ IF ChecksWantsFullscreen(ModeOf(cur[1]))
             THEN /\ pc' = "handled"
                  /\ handlerRequested' = called
                  /\ UNCHANGED <<cur, queue, stopped, evRetries, retrySource>>
             ELSE ListenerReturns
    /\ UNCHANGED <<phase, hostWindow, hostPointer, mouse_state, probes, slots,
                   attached, nextId, retries, retryPending, ret>>

\* web_sys Element::request_fullscreen() as called by the retry: Ok(()) or
\* Err (the host threw).  Its promise is not kept.
RetryAnswers == {"ok", "err"}

\* Variant of RetryConfirmationResult: the retry goes through
\* Common::request_fullscreen, whose task sets the flag on a rejection.
RetryConfirmationResult_Awaited(rejected) ==
    IF rejected
    THEN /\ wants_fullscreen' = TRUE
         /\ flagSource' = "rejected"
         /\ UNCHANGED hostFs
    ELSE /\ hostFs' = TRUE
         /\ UNCHANGED <<wants_fullscreen, flagSource>>

\* The retry calls `canvas.request_fullscreen()` as a statement: no task is
\* spawned for what the host answers later, so neither outcome reaches the
\* program; a grant puts the host in fullscreen.
RetryConfirmationResult(rejected) ==
    /\ hostFs' = (IF rejected THEN hostFs ELSE TRUE)
    /\ UNCHANGED <<wants_fullscreen, flagSource>>

\* The host settles what it returned to a retry; another retry's answer may
\* be left unsettled.
RetryConfirmationSettles ==
    /\ phase = "live"
    /\ pc \in {"idle", "dispatching"}
    /\ retryPending
    /\ retryPending' \in BOOLEAN
    /\ \E rejected \in BOOLEAN : RetryConfirmationResult(rejected)
    /\ ret' = "none"
    /\ UNCHANGED <<phase, hostWindow, hostPointer, mouse_state, probes, pending,
                   slots, attached, nextId, pc, cur, queue, stopped, evRetries,
                   retrySource, handlerRequested, requests, retries>>

\* `if *wants_fullscreen.borrow() { canvas.request_fullscreen().expect(..);`
\* with the flag false the closure returns; with the flag true the request is
\* handed to the host, and expect() panics if the host threw.
CheckWantsFullscreen ==
    /\ phase = "live"
    /\ pc = "handled"
    /\ IF wants_fullscreen
       THEN /\ retries' = retries + 1
            /\ evRetries' = evRetries + 1
            /\ retrySource' = flagSource
            /\ \E answer \in RetryAnswers :
                  IF answer = "ok"
                  THEN /\ pc' = "retrying"
                       /\ retryPending' = TRUE
                       /\ UNCHANGED phase
                  ELSE /\ phase' = "panicked"
                       /\ UNCHANGED <<pc, retryPending>>
            /\ UNCHANGED <<cur, queue, stopped, hostFs, handlerRequested>>
       ELSE /\ ListenerReturns
            /\ UNCHANGED <<phase, hostFs, retries, retryPending>>
    /\ UNCHANGED <<hostWindow, hostPointer, mouse_state, probes, wants_fullscreen,
                   flagSource, pending, slots, attached, nextId, requests, ret>>

\* Variant of ClearWantsFullscreen: the closure returns without resetting the flag.
ClearWantsFullscreen_KeepsFlag ==
    /\ phase = "live"
    /\ pc = "retrying"
    /\ ListenerReturns
    /\ UNCHANGED <<phase, hostWindow, hostPointer, hostFs, mouse_state, probes,
                   wants_fullscreen, flagSource, pending, slots, attached, nextId,
                   requests, retries, retryPending, ret>>

\* `*wants_fullscreen.borrow_mut() = false; }` and the closure returns.
ClearWantsFullscreen ==
    /\ phase = "live"
    /\ pc = "retrying"
    /\ wants_fullscreen' = FALSE
    /\ flagSource' = "none"
    /\ ListenerReturns
    /\ UNCHANGED <<phase, hostWindow, hostPointer, hostFs, mouse_state, probes,
                   pending, slots, attached, nextId, requests, retries,
                   retryPending, ret>>

Next ==
    \/ create
    \/ on_touch_start \/ on_touch_end \/ on_blur \/ on_focus
    \/ on_keyboard_release \/ on_keyboard_press \/ on_mouse_wheel
    \/ on_fullscreen_change \/ on_dark_mode
    \/ on_cursor_leave \/ on_cursor_enter \/ on_mouse_release
    \/ on_mouse_press \/ on_cursor_move \/ on_touch_cancel
    \/ AssignSlot
    \/ remove_listeners
    \/ request_fullscreen
    \/ ConfirmationSettles
    \/ is_fullscreen
    \/ HostExitsFullscreen
    \/ HostCapabilityChanges
    \/ \E s \in Slots : InvokeListener(s)
    \/ RunHandler
    \/ CheckWantsFullscreen
    \/ ClearWantsFullscreen
    \/ RetryConfirmationSettles

Spec == Init /\ [][Next]_vars

\* ---------------------------------------------------------------------
\* Properties.

\* The modes whose closure carries the wants_fullscreen check.
RetryModes == {"user", "window"}

\* A listener closure is running (between its entry and its return).
InListener == pc \in {"entered", "handled", "retrying"}

\* C1: a request_fullscreen() whose host call fails synchronously never sets
\* wants_fullscreen, and no retry is ever issued on account of it.
C1_SyncFailureNeverSetsFlag ==
    /\ flagSource # "sync_err"
    /\ retrySource # "sync_err"

\* C2: once the asynchronous confirmation rejects, wants_fullscreen is true
\* and is reset nowhere but inside the dispatch of an event through a
\* user-originated or window-scoped registration, after exactly one retry
\* request of that dispatch; a closure that finds the flag set issues that
\* retry, and the flag is false when the closure returns.
C2_RejectionDefersOneRetry ==
    [][ /\ (flagSource' = "rejected" => wants_fullscreen')
        /\ (wants_fullscreen /\ ~wants_fullscreen' =>
               /\ pc = "retrying"
               /\ ModeOf(cur[1]) \in RetryModes
               /\ evRetries = 1)
        /\ (pc = "handled" /\ wants_fullscreen =>
               /\ retries' = retries + 1
               /\ evRetries' = 1)
        /\ (InListener /\ ModeOf(cur[1]) \in RetryModes /\ ~InListener' =>
               ~wants_fullscreen')
      ]_vars

\* C2 witness: inside the dispatch of a key event the one retry has been
\* issued for a flag that a rejected confirmation set.
C2_Witness ==
    /\ pc = "retrying"
    /\ cur[1] \in {"on_keyboard_release", "on_keyboard_press"}
    /\ retrySource = "rejected"
    /\ evRetries = 1
    /\ retries = 1

\* C3: after remove_listeners() none of the nine Canvas slots holds a
\* registration and no listener of those slots is attached to the host.
C3_RemoveListenersEmptiesEverySlot ==
    [][ remove_listeners =>
           /\ \A s \in CanvasSlots : slots'[s] = 0
           /\ \A r \in attached' : r[1] \notin CanvasSlots
      ]_vars

\* C4 (as stated): once a subscription method has returned, exactly one
\* registration is attached for its slot.
C4_ExactlyOneAfterSubscribe ==
    [][ AssignSlot => Cardinality({r \in attached' : r[1] = cur[1]}) = 1 ]_vars

\* C4 (amended): outside a running subscription method the listeners attached
\* for a slot are exactly the handle the slot holds (none if it holds none),
\* which every step that leaves a subscription method or changes a slot or a
\* listener re-establishes;
\* when a subscription method returns, its slot holds the handle it created,
\* and a handle was created unless the method is on_dark_mode; a listener that
\* runs is the one its slot holds, never an earlier one.
C4_AtMostOneAndLatest ==
    [][ /\ (/\ pc' # "installing"
            /\ (pc = "installing" \/ attached' # attached \/ slots' # slots)
            => attached' = {<<s, slots'[s]>> : s \in {x \in Slots : slots'[x] # 0}})
        /\ (AssignSlot =>
               /\ slots'[cur[1]] = cur[2]
               /\ (cur[1] # "on_dark_mode" => cur[2] # 0))
        /\ (pc' \in {"entered", "handled", "retrying"} => cur'[2] = slots'[cur'[1]])
      ]_vars

\* C4 witness: a slot was subscribed a second time and an event then runs the
\* second registration's closure.
C4_Witness ==
    /\ pc = "entered"
    /\ cur[2] = 2
    /\ slots[cur[1]] = 2
    /\ EventListeners(cur[1]) = {cur}

\* C5: a retry request is handed to the host only by the closure of a
\* user-originated or window-scoped registration, after its handler; never
\* by request_fullscreen(), is_fullscreen(), remove_listeners(), a settled
\* confirmation or the closure of a plain registration.
C5_RetryOnlyInUserDispatch ==
    [][ retries' # retries =>
           /\ pc = "handled"
           /\ ModeOf(cur[1]) \in RetryModes
           /\ cur \in attached
      ]_vars

\* C5 witness: a retry has just been handed to the host inside a closure.
C5_Witness ==
    /\ pc = "retrying"
    /\ retries = 2
    /\ ModeOf(cur[1]) = "user"
    /\ cur[1] \in StrategySlots

C7_FlagClearedBeforeRetry ==
    (evRetries > 0 /\ pc \in {"handled", "retrying"}) => ~wants_fullscreen

\* C8: whatever the host answers to a fullscreen request or to a retry, the
\* program does not panic.
C8_NoFullscreenFailureIsFatal ==
    ~(phase = "panicked" /\ evRetries > 0)

\* C9: the strategy is chosen by the one probe create() makes and is the same
\* in every later state; the capability is never probed again.
C9_StrategyFixedAtCreation ==
    [][ /\ (phase' = "live" =>
               /\ probes' = 1
               /\ mouse_state' \in {"HasPointerEvent", "NoPointerEvent"})
        /\ (phase = "uncreated" /\ phase' = "live" =>
               mouse_state' = (IF hostWindow /\ hostPointer
                               THEN "HasPointerEvent" ELSE "NoPointerEvent"))
        /\ (phase # "uncreated" =>
               /\ mouse_state' = mouse_state
               /\ probes' = probes)
      ]_vars

\* C9 witness: listeners were removed after the host's capability changed, and
\* the strategy is still the one chosen at creation.
C9_Witness ==
    /\ phase = "live"
    /\ mouse_state = "NoPointerEvent"
    /\ hostWindow /\ hostPointer
    /\ nextId > 1
    /\ attached = {}

\* C10: when the host returns no promise, wants_fullscreen is true as
\* request_fullscreen() returns; it stays true until a closure of a
\* user-originated or window-scoped registration runs its check, and that
\* closure issues a retry.
C10_NoPromiseDefersRetry ==
    [][ /\ (RequestFullscreen("undefined") => wants_fullscreen')
        /\ (wants_fullscreen /\ ~wants_fullscreen' => pc = "retrying")
        /\ (pc = "handled" /\ wants_fullscreen => retries' = retries + 1)
      ]_vars

\* C10 witness: a retry was issued for a flag set because the host returned
\* no promise.
C10_Witness ==
    /\ retrySource = "no_promise"
    /\ evRetries = 1
    /\ pc = "retrying"

\* C11 (as stated): after a confirmation has been fulfilled with no other
\* confirmation pending, wants_fullscreen is false.
C11_FulfilledMeansIdle ==
    [][ ConfirmationSettles /\ ConfirmationResult(FALSE) /\ pending' = 0 =>
           ~wants_fullscreen' ]_vars

\* C11 (amended): a fulfilled confirmation leaves wants_fullscreen as it was
\* and the host in fullscreen; a closure that finds the flag false at its
\* check issues no retry.
C11_FulfilledLeavesFlag ==
    [][ /\ (ConfirmationSettles /\ ConfirmationResult(FALSE) =>
               /\ wants_fullscreen' = wants_fullscreen
               /\ flagSource' = flagSource
               /\ hostFs')
        /\ (pc = "handled" /\ ~wants_fullscreen =>
               /\ retries' = retries
               /\ ~wants_fullscreen'
               /\ pc' \in {"idle", "dispatching"})
      ]_vars

\* C11 witness: the only request made was confirmed (nothing pending, flag
\* false, host in fullscreen) and the closure of a key or pointer
\* registration is at its check.
C11_Witness ==
    /\ pc = "handled"
    /\ ModeOf(cur[1]) = "user"
    /\ requests = 1
    /\ pending = 0
    /\ hostFs
    /\ ~wants_fullscreen
    /\ retries = 0

\* C12 (as stated): when what the host returned to a retry is rejected,
\* wants_fullscreen becomes true again.
C12_RetryRejectionSetsFlag ==
    [][ RetryConfirmationSettles /\ RetryConfirmationResult(TRUE) =>
           wants_fullscreen' ]_vars

\* C12 (amended): a retry spawns no confirmation task, and whatever the host
\* later answers to it leaves wants_fullscreen, the awaited confirmations and
\* the retry count as they were; the dispatch that issued the retry returns
\* with the flag false, so the retry alone causes no further retry.
C12_RetryIsNotAwaited ==
    [][ /\ (retries' # retries => pending' = pending)
        /\ (RetryConfirmationSettles =>
               /\ wants_fullscreen' = wants_fullscreen
               /\ flagSource' = flagSource
               /\ pending' = pending
               /\ retries' = retries)
        /\ (pc = "retrying" => ~wants_fullscreen' /\ retries' = retries)
      ]_vars

\* C12 witness: the one retry issued so far was answered by the host without
\* fullscreen being entered, and the next key or pointer event has reached
\* its check with the flag false.
C12_Witness ==
    /\ pc = "handled"
    /\ ModeOf(cur[1]) = "user"
    /\ requests = 1
    /\ retries = 1
    /\ ~retryPending
    /\ pending = 0
    /\ ~hostFs
    /\ ~wants_fullscreen

\* C13: a confirmation that is rejected sets wants_fullscreen whether or not
\* listeners are left; remove_listeners() leaves no listener attached whose
\* closure checks the flag; and a retry is issued only by the closure of a
\* registration that is attached and held by its slot, hence one installed
\* after the last remove_listeners().
C13_NoRetryAfterRemoveListeners ==
    [][ /\ (ConfirmationSettles /\ ConfirmationResult(TRUE) => wants_fullscreen')
        /\ (remove_listeners =>
               /\ \A r \in attached' : ModeOf(r[1]) \notin RetryModes
               /\ pending' = pending)
        /\ (retries' # retries =>
               /\ cur \in attached
               /\ slots[cur[1]] = cur[2]
               /\ ModeOf(cur[1]) \in RetryModes)
      ]_vars

\* C13 witness: two registrations were made and removed, the confirmation of
\* the only request was rejected, and the flag is set with no listener left
\* and no retry issued.
C13_Witness ==
    /\ pc = "idle"
    /\ nextId = 3
    /\ attached = {}
    /\ requests = 1
    /\ pending = 0
    /\ wants_fullscreen
    /\ flagSource = "rejected"
    /\ retries = 0

\* C14 (as stated): with no host environment reachable there is never a
\* Surface.
C14_NoHostMeansNoSurface ==
    ~hostWindow => phase \notin {"live", "panicked"}

\* C14 (amended): create() called without an element while no host
\* environment is reachable returns an error and yields no Surface; create()
\* returns an error exactly when it yields no Surface.
C14_NoHostFailsWithoutElement ==
    /\ (~hostWindow /\ ret \in {"create(None):Ok", "create(None):Err"} =>
           /\ ret = "create(None):Err"
           /\ phase = "create_failed"
           /\ mouse_state = "none")
    /\ (ret \in {"create(None):Ok", "create(Some):Ok"} => phase = "live")
    /\ (ret \in {"create(None):Err", "create(Some):Err"} <=> phase = "create_failed")

\* C14 witness: create() without an element has failed on a host with no
\* environment.
C14_Witness ==
    /\ ~hostWindow
    /\ ret = "create(None):Err"
    /\ phase = "create_failed"

\* C15 (as stated): at no point are two registrations of one slot attached
\* to the host.
C15_NeverTwoAttached ==
    \A s \in Slots : Cardinality({r \in attached : r[1] = s}) <= 1

\* C15 (amended): inside a subscription method, once the new registration is
\* attached and until the field is assigned, the slot's listeners are the new
\* one and the one the slot still holds; at every other point a slot has at
\* most one listener attached.
C15_ReleasedAfterInstall ==
    /\ \A r1, r2 \in attached :
          r1[1] = r2[1] /\ r1 # r2 => pc = "installing" /\ cur[1] = r1[1]
    /\ (pc = "installing" =>
           {r \in attached : r[1] = cur[1]}
              = {<<cur[1], slots[cur[1]]>>, cur} \ {<<cur[1], 0>>})

\* C15 witness: a subscription method called for a slot that holds a
\* registration has attached the new one and not yet released the old one.
C15_Witness ==
    /\ pc = "installing"
    /\ slots[cur[1]] # 0
    /\ cur[2] # 0
    /\ {<<cur[1], slots[cur[1]]>>, cur} \subseteq attached
    /\ cur[2] # slots[cur[1]]

\* C16: under the legacy mouse strategy the touch-cancel slot never holds a
\* registration, no touch-cancel listener is attached, installed or run, and
\* on_touch_cancel() changes nothing; under the pointer strategy
\* on_touch_cancel() hands the handler to the strategy, which attaches it.
C16_TouchCancelOnlyOnPointerStrategy ==
    [][ /\ (mouse_state' = "NoPointerEvent" =>
               /\ slots'["on_touch_cancel"] = 0
               /\ \A r \in attached' : r[1] # "on_touch_cancel"
               /\ cur'[1] # "on_touch_cancel")
        /\ (on_touch_cancel /\ mouse_state = "NoPointerEvent" =>
               UNCHANGED <<slots, attached, nextId, pc, cur, phase>>)
        /\ (on_touch_cancel /\ mouse_state = "HasPointerEvent" =>
               /\ pc' = "installing"
               /\ cur'[1] = "on_touch_cancel"
               /\ cur' \in attached')
      ]_vars

\* C16 witness: under the pointer strategy a touch-cancel event runs the
\* handler that on_touch_cancel() forwarded.
C16_Witness ==
    /\ mouse_state = "HasPointerEvent"
    /\ pc = "entered"
    /\ cur[1] = "on_touch_cancel"
    /\ slots["on_touch_cancel"] = cur[2]

\* C17: a step that returns an answer of is_fullscreen() returns the host's
\* fullscreen state, whatever wants_fullscreen is, and changes neither the
\* flag, the strategy, a slot or a listener, nor anything else of the
\* controller or the host.
C17_IsFullscreenIsPureQuery ==
    [][ ret' \in {"true", "false"} =>
           /\ ret' = (IF hostFs THEN "true" ELSE "false")
           /\ UNCHANGED <<wants_fullscreen, flagSource, mouse_state, slots,
                          attached, hostFs, pending, retryPending, phase, pc,
                          requests, retries>>
      ]_vars

\* C17 witness: is_fullscreen() has answered true while wants_fullscreen is
\* set.
C17_Witness ==
    /\ ret = "true"
    /\ hostFs
    /\ wants_fullscreen

\* C18: when create() has returned a Surface it has probed once and the
\* strategy is the pointer strategy exactly if the host has a window that
\* exposes the PointerEvent constructor, the legacy one otherwise (also with
\* no window, the element being supplied); when create() has failed, or has
\* not run, nothing was probed and no strategy exists.
C18_StrategyFollowsProbe ==
    /\ (ret \in {"create(None):Ok", "create(Some):Ok"} =>
           /\ probes = 1
           /\ mouse_state = (IF hostWindow /\ hostPointer THEN "HasPointerEvent"
                                                          ELSE "NoPointerEvent"))
    /\ (ret = "create(None):Ok" => hostWindow)
    /\ (phase \in {"uncreated", "create_failed"} =>
           /\ probes = 0
           /\ mouse_state = "none")

\* C18 witness: create() was given an element on a host with no window and
\* has chosen the legacy mouse strategy.
C18_Witness ==
    /\ ret = "create(Some):Ok"
    /\ ~hostWindow
    /\ probes = 1
    /\ mouse_state = "NoPointerEvent"

\* C19: the closure of a user-originated registration has stopped propagation
\* before the handler runs; after the handler it makes its check, and if the
\* flag is set then, also when the handler has just set it, it issues the
\* retry in this dispatch; when the closure returns the flag is false.
C19_StopHandlerThenCheck ==
    [][ /\ (InListener' /\ ModeOf(cur'[1]) = "user" => stopped')
        /\ (pc = "entered" /\ ModeOf(cur[1]) = "user" =>
               /\ pc' = "handled"
               /\ cur' = cur
               /\ evRetries' = evRetries)
        /\ (pc = "handled" /\ ModeOf(cur[1]) = "user" /\ wants_fullscreen =>
               /\ evRetries' = evRetries + 1
               /\ cur' = cur)
        /\ (InListener /\ ModeOf(cur[1]) = "user" /\ ~InListener' =>
               ~wants_fullscreen')
      ]_vars

\* C19 witness: the handler of a key or pointer event made the only
\* request_fullscreen() call so far, the host returned no promise, and the
\* closure has issued the retry in the same dispatch.
C19_Witness ==
    /\ pc = "retrying"
    /\ ModeOf(cur[1]) = "user"
    /\ stopped
    /\ handlerRequested
    /\ requests = 1
    /\ retrySource = "no_promise"
    /\ evRetries = 1

\* C20: before there is a Surface, and as create() returns one, the flag is
\* false and nothing has been requested or retried; afterwards every retry
\* issued, every confirmation still awaited and a flag that is set and not yet
\* taken by a retry each go back to a request_fullscreen() call of their own,
\* so that there are never more retries than request_fullscreen() calls.
C20_RetriesBoundedByRequests ==
    LET taken == \/ pc = "retrying"
                 \/ phase = "panicked" /\ pc = "handled" /\ evRetries > 0
        owed == IF wants_fullscreen /\ ~taken THEN 1 ELSE 0
    IN  /\ retries <= requests
        /\ retries + pending + owed <= requests
        /\ (\/ phase \in {"uncreated", "create_failed"}
            \/ ret \in {"create(None):Ok", "create(Some):Ok"}
            => ~wants_fullscreen /\ requests = 0 /\ retries = 0)

\* C20 witness: two request_fullscreen() calls were made and the second retry
\* has just been issued.
C20_Witness ==
    /\ pc = "retrying"
    /\ requests = 2
    /\ retries = 2
    /\ pending = 0
====
